---- MODULE Spec2Model ----
(***************************************************************************)
(* Model of examples/plot_charge_resolution.py: the ChargeResolutionPlotter *)
(* component (two-panel figure, legend bookkeeping, axis set-up, output)    *)
(* and the ChargeResolutionViewer tool that drives it.                      *)
(*                                                                          *)
(* Conventions.  A Python str is a sequence of one-character strings; the   *)
(* Python value None is the one-element sequence <<"None">>, and a string  *)
(* literal the program never takes apart is kept in one piece, such as     *)
(* <<"Goal">>.  A numpy array is a sequence of integers.  The axis limits 0.9 and max_pe * 1.1 are     *)
(* kept in tenths (9 and max_pe * 11), so that no floating point is needed. *)
(***************************************************************************)
EXTENDS Integers, Sequences, FiniteSets, TLC

VARIABLES plotter, alive, fs, exc, call, ncalls, nsaves, ndata, nlimit,
          shown, pc, input_files

vars == <<plotter, alive, fs, exc, call, ncalls, nsaves, ndata, nlimit,
          shown, pc, input_files>>

(***************************************************************************)
(* Bounds of the model.                                                     *)
(***************************************************************************)
\* longest array handed to one plotting call
MaxLen == 2
\* plotting calls made on one plotter
MaxCalls == 2
\* save() calls made on one plotter
MaxSaves == 2
\* input files of one tool run
MaxFiles == 2

(***************************************************************************)
(* Python values.                                                           *)
(***************************************************************************)
None == <<"None">>

NoExc == "None"

Last(s) == s[Len(s)]

\* all sequences over S of length at most n
RECURSIVE SeqUpTo(_, _)
SeqUpTo(S, n) ==
    IF n = 0 THEN {<<>>}
    ELSE LET shorter == SeqUpTo(S, n - 1)
         IN  shorter \cup {Append(s, e) : s \in {t \in shorter : Len(t) = n - 1}, e \in S}

(***************************************************************************)
(* str methods and os.path (posixpath) functions used by the plotter.       *)
(***************************************************************************)
\* p.rfind(c) + 1: the 1-based place of the last c in p, 0 when there is none
RFind(p, c) ==
    LET at == {i \in 1..Len(p) : p[i] = c}
    IN  IF at = {} THEN 0 ELSE CHOOSE i \in at : \A j \in at : j <= i

\* p.find(c, 1) + 1: the 1-based place of the first c after the first
\* character, 0 when there is none
FindFrom1(p, c) ==
    LET at == {i \in 2..Len(p) : p[i] = c}
    IN  IF at = {} THEN 0 ELSE CHOOSE i \in at : \A j \in at : i <= j

\* p.rstrip('/')
RECURSIVE RStripSep(_)
RStripSep(p) ==
    IF p # <<>> /\ Last(p) = "/" THEN RStripSep(SubSeq(p, 1, Len(p) - 1)) ELSE p

AllSep(p) == \A i \in 1..Len(p) : p[i] = "/"

\* posixpath.split
split(p) ==
    LET i    == RFind(p, "/")
        head == SubSeq(p, 1, i)
        tail == SubSeq(p, i + 1, Len(p))
    IN  [head |-> IF head # <<>> /\ ~AllSep(head) THEN RStripSep(head) ELSE head,
         tail |-> tail]

basename(p) == SubSeq(p, RFind(p, "/") + 1, Len(p))

dirname(p) == split(p).head

\* genericpath._splitext with sep '/' and extsep '.': the extension starts at
\* the last dot of the last path component, leading dots of it not counted
splitext(p) ==
    LET sepIndex == RFind(p, "/")
        dotIndex == RFind(p, ".")
    IN  IF dotIndex > sepIndex
           /\ \E k \in (sepIndex + 1)..(dotIndex - 1) : p[k] # "."
        THEN [root |-> SubSeq(p, 1, dotIndex - 1), ext |-> SubSeq(p, dotIndex, Len(p))]
        ELSE [root |-> p, ext |-> <<>>]

\* the environment's HOME
HOME == <<"/", "h">>

\* posixpath.expanduser; no user other than the current one is known, so
\* "~name" is returned unchanged
expanduser(path) ==
    IF path = <<>> \/ path[1] # "~" THEN path
    ELSE LET f == FindFrom1(path, "/")
             i == IF f = 0 THEN Len(path) + 1 ELSE f
         IN  IF i # 2 THEN path
             ELSE LET r == RStripSep(HOME) \o SubSeq(path, i, Len(path))
                  IN  IF r = <<>> THEN <<"/">> ELSE r

(***************************************************************************)
(* The file system: the directories and files that exist, and whether the   *)
(* process may write.                                                       *)
(***************************************************************************)
exists(f, p) == p \in f.dirs \cup f.files

\* os.mkdir
mkdir(f, p) ==
    IF p = <<>> THEN [fs |-> f, exc |-> "FileNotFoundError"]
    ELSE IF exists(f, p) THEN [fs |-> f, exc |-> "FileExistsError"]
    ELSE IF dirname(p) # <<>> /\ dirname(p) \notin f.dirs
         THEN [fs |-> f, exc |-> "FileNotFoundError"]
    ELSE IF ~f.writable THEN [fs |-> f, exc |-> "PermissionError"]
    ELSE [fs |-> [f EXCEPT !.dirs = @ \cup {p}], exc |-> NoExc]

\* os.makedirs(name), exist_ok=False
RECURSIVE makedirs(_, _)
makedirs(f, name) ==
    LET s1   == split(name)
        s    == IF s1.tail = <<>> THEN split(s1.head) ELSE s1
        up   == IF s.head # <<>> /\ s.tail # <<>> /\ ~exists(f, s.head)
                THEN makedirs(f, s.head)
                ELSE [fs |-> f, exc |-> NoExc]
    IN  IF up.exc \notin {NoExc, "FileExistsError"} THEN up
        ELSE mkdir(up.fs, name)

\* Figure.savefig(path): opens the file for writing
savefig(f, path) ==
    IF dirname(path) # <<>> /\ dirname(path) \notin f.dirs
    THEN [fs |-> f, exc |-> "FileNotFoundError"]
    ELSE IF ~f.writable THEN [fs |-> f, exc |-> "PermissionError"]
    ELSE [fs |-> [f EXCEPT !.files = @ \cup {path}], exc |-> NoExc]

(***************************************************************************)
(* numpy: elementwise comparison and boolean-mask indexing.                 *)
(***************************************************************************)
\* x < m, elementwise: the cut-off charge itself left out
LessThan(x, m) == [i \in 1..Len(x) |-> x[i] < m]

\* x <= m, elementwise
LessEqual(x, m) == [i \in 1..Len(x) |-> x[i] <= m]

RECURSIVE Compress(_, _)
Compress(a, mask) ==
    IF a = <<>> THEN <<>>
    ELSE LET rest == Compress(Tail(a), Tail(mask))
         IN  IF Head(mask) THEN <<Head(a)>> \o rest ELSE rest

\* a[mask] that does not compare the lengths and stops at the shorter one
BoolIndexLenient(a, mask) ==
    LET n == IF Len(a) < Len(mask) THEN Len(a) ELSE Len(mask)
    IN  [val |-> Compress(SubSeq(a, 1, n), SubSeq(mask, 1, n)), exc |-> NoExc]

\* a[mask]: the elements of a where mask is true, in order; a mask whose
\* length differs from the array's raises IndexError
BoolIndex(a, mask) ==
    IF Len(mask) # Len(a) THEN [val |-> <<>>, exc |-> "IndexError"]
    ELSE [val |-> Compress(a, mask), exc |-> NoExc]

(***************************************************************************)
(* matplotlib: an axes is its list of artists and its settings.             *)
(***************************************************************************)
NoLim == <<0, 10>>

NoLegend == [handles |-> <<>>, labels |-> <<>>, drawn |-> FALSE]

\* Figure.add_subplot: an empty axes with linear scales
add_subplot ==
    [artists |-> <<>>, xscale |-> "linear", yscale |-> "linear",
     xlabel |-> "", ylabel |-> "", xlim |-> NoLim, legend |-> NoLegend]

\* Axes.errorbar(x, y, yerr=yerr, marker='x', linestyle="None")
errorbar(ax, x, y, yerr) ==
    [ax EXCEPT !.artists = Append(@, [kind |-> "errorbar", x |-> x, y |-> y,
                                      yerr |-> yerr, marker |-> "x",
                                      ls |-> "None", color |-> "cycle"])]

\* Axes.plot(x, y, color, ls): y names the curve evaluated on the grid x
plot(ax, x, y, color, ls) ==
    [ax EXCEPT !.artists = Append(@, [kind |-> "line", x |-> x, y |-> y,
                                      yerr |-> <<>>, marker |-> "",
                                      ls |-> ls, color |-> color])]

\* the artist an Axes call has just added, used as its legend handle
handle(side, ax) == [ax |-> side, idx |-> Len(ax.artists)]

\* np.logspace(log10(0.9), log10(max_pe * 1.1), 100), in tenths
logspace(max_pe) == [lo |-> 9, hi |-> max_pe * 11, num |-> 100]

(***************************************************************************)
(* ChargeResolutionPlotter.                                                 *)
(***************************************************************************)
\* the traits of the component, set from the configuration
Traits(output_path, max_pe, linear_x, linear_y) ==
    [output_path |-> output_path, max_pe |-> max_pe,
     linear_x |-> linear_x, linear_y |-> linear_y]

\* __init__ without the check of the output path
PlotterInitNoCheck(traits) ==
    [self |-> [output_path    |-> traits.output_path,
               max_pe         |-> traits.max_pe,
               linear_x       |-> traits.linear_x,
               linear_y       |-> traits.linear_y,
               ax_l           |-> add_subplot,
               ax_r           |-> add_subplot,
               suptitle       |-> None,
               legend_handles |-> <<>>,
               legend_labels  |-> <<>>],
     exc |-> NoExc]

\* __init__: an output path is required; then the figure with its two axes
\* and the empty legend lists
PlotterInit(traits) ==
    IF traits.output_path = None
    THEN [self |-> traits, exc |-> "ValueError"]
    ELSE [self |-> [output_path    |-> traits.output_path,
                    max_pe         |-> traits.max_pe,
                    linear_x       |-> traits.linear_x,
                    linear_y       |-> traits.linear_y,
                    ax_l           |-> add_subplot,
                    ax_r           |-> add_subplot,
                    suptitle       |-> None,
                    legend_handles |-> <<>>,
                    legend_labels  |-> <<>>],
          exc |-> NoExc]

plot_chargeres(self, name, x, res, error) ==
    LET valid   == LessEqual(x, self.max_pe)
        x_v     == BoolIndex(x, valid)
        res_v   == BoolIndex(res, valid)
        error_v == BoolIndex(error, valid)
    IN  IF res_v.exc # NoExc THEN [self |-> self, exc |-> res_v.exc]
        ELSE IF error_v.exc # NoExc THEN [self |-> self, exc |-> error_v.exc]
        ELSE LET ax == errorbar(self.ax_l, x_v.val, res_v.val, error_v.val)
             IN  [self |-> [self EXCEPT
                     !.ax_l = ax,
                     !.legend_handles = Append(@, handle("l", ax)),
                     !.legend_labels = Append(@, splitext(name).root)],
                  exc |-> NoExc]

\* plot_scaled_chargeres that also adds a legend entry, as plot_chargeres does
plot_scaled_with_legend(self, x, res, error) ==
    LET valid   == LessEqual(x, self.max_pe)
        x_v     == BoolIndex(x, valid)
        res_v   == BoolIndex(res, valid)
        error_v == BoolIndex(error, valid)
    IN  IF res_v.exc # NoExc THEN [self |-> self, exc |-> res_v.exc]
        ELSE IF error_v.exc # NoExc THEN [self |-> self, exc |-> error_v.exc]
        ELSE LET ax == errorbar(self.ax_r, x_v.val, res_v.val, error_v.val)
             IN  [self |-> [self EXCEPT
                     !.ax_r = ax,
                     !.legend_handles = Append(@, handle("r", ax)),
                     !.legend_labels = Append(@, <<"scaled">>)],
                  exc |-> NoExc]

plot_scaled_chargeres(self, x, res, error) ==
    LET valid   == LessEqual(x, self.max_pe)
        x_v     == BoolIndex(x, valid)
        res_v   == BoolIndex(res, valid)
        error_v == BoolIndex(error, valid)
    IN  IF res_v.exc # NoExc THEN [self |-> self, exc |-> res_v.exc]
        ELSE IF error_v.exc # NoExc THEN [self |-> self, exc |-> error_v.exc]
        ELSE [self |-> [self EXCEPT
                 !.ax_r = errorbar(@, x_v.val, res_v.val, error_v.val)],
              exc |-> NoExc]

\* plot_limit_curves that puts its three entries at the head of the legend
plot_limit_curves_first(self) ==
    LET x    == logspace(self.max_pe)
        l1   == plot(self.ax_l, x, "requirement", "r", "--")
        l2   == plot(l1, x, "goal", "g", "--")
        l3   == plot(l2, x, "poisson", "0.75", "--")
        r1   == plot(self.ax_r, x, "requirement/goal", "r", "-")
        r2   == plot(r1, x, "goal/goal", "g", "-")
        r3   == plot(r2, x, "poisson/goal", "0.75", "--")
    IN  [self |-> [self EXCEPT
            !.ax_l = l3,
            !.ax_r = r3,
            !.legend_handles = <<handle("l", l1), handle("l", l2), handle("l", l3)>> \o @,
            !.legend_labels = <<<<"Requirement">>, <<"Goal">>, <<"Poisson">>>> \o @],
         exc |-> NoExc]

\* math.log10 of a value that is not positive raises ValueError
plot_limit_curves(self) ==
    IF self.max_pe * 11 <= 0 THEN [self |-> self, exc |-> "ValueError"]
    ELSE
    LET x    == logspace(self.max_pe)
        l1   == plot(self.ax_l, x, "requirement", "r", "--")
        r_p  == handle("l", l1)
        l2   == plot(l1, x, "goal", "g", "--")
        g_p  == handle("l", l2)
        l3   == plot(l2, x, "poisson", "0.75", "--")
        p_p  == handle("l", l3)
        r1   == plot(self.ax_r, x, "requirement/goal", "r", "-")
        r2   == plot(r1, x, "goal/goal", "g", "-")
        r3   == plot(r2, x, "poisson/goal", "0.75", "--")
    IN  [self |-> [self EXCEPT
            !.ax_l = l3,
            !.ax_r = r3,
            !.legend_handles = @ \o <<r_p, g_p, p_p>>,
            !.legend_labels = @ \o <<<<"Requirement">>, <<"Goal">>, <<"Poisson">>>>],
         exc |-> NoExc]

\* the charge above which the right panel is no longer widened
ClampPe == 2000

\* the scales with the y scale taken from the x flag
save_scales_xflag(self) ==
    [self EXCEPT
        !.ax_l.xscale = IF ~self.linear_x THEN "log" ELSE @,
        !.ax_r.xscale = IF ~self.linear_x THEN "log" ELSE @,
        !.ax_l.yscale = IF ~self.linear_x THEN "log" ELSE @]

\* save, the scales: logarithmic unless the flag asks for linear
save_scales(self) ==
    [self EXCEPT
        !.ax_l.xscale = IF ~self.linear_x THEN "log" ELSE @,
        !.ax_r.xscale = IF ~self.linear_x THEN "log" ELSE @,
        !.ax_l.yscale = IF ~self.linear_y THEN "log" ELSE @]

\* save, the axis labels
save_labels(self) ==
    [self EXCEPT
        !.ax_l.xlabel = "True Charge $Q_T$ (p.e.)",
        !.ax_l.ylabel = "Charge Resolution",
        !.ax_r.xlabel = "True Charge $Q_T$ (p.e.)",
        !.ax_r.ylabel = "Charge Resolution/Goal"]

\* save, the legend of the left panel, from the two lists as they stand
save_legend(self) ==
    [self EXCEPT
        !.ax_l.legend = [handles |-> self.legend_handles,
                         labels  |-> self.legend_labels,
                         drawn   |-> TRUE]]

\* save, the title: the output file's name without its extension
save_title(self) ==
    [self EXCEPT !.suptitle = splitext(basename(self.output_path)).root]

\* the x limits without the cut of the right panel
save_limits_noclamp(self) ==
    [self EXCEPT
        !.ax_l.xlim = <<9, self.max_pe * 11>>,
        !.ax_r.xlim = <<9, self.max_pe * 11>>]

\* save, the x limits: both panels up to max_pe * 1.1, the right one no
\* further than 2000 * 1.1
save_limits(self) ==
    [self EXCEPT
        !.ax_l.xlim = <<9, self.max_pe * 11>>,
        !.ax_r.xlim = IF self.max_pe > ClampPe
                      THEN <<9, ClampPe * 11>>
                      ELSE <<9, self.max_pe * 11>>]

\* save, the output: the window when there is no output path, else the file,
\* its directory made first when it does not exist
save_output(self, f) ==
    IF self.output_path = None
    THEN [self |-> self, fs |-> f, exc |-> NoExc, shown |-> TRUE]
    ELSE
    LET s          == [self EXCEPT !.output_path = expanduser(@)]
        output_dir == dirname(s.output_path)
        made       == IF ~exists(f, output_dir)
                      THEN makedirs(f, output_dir)
                      ELSE [fs |-> f, exc |-> NoExc]
    IN  IF made.exc # NoExc
        THEN [self |-> s, fs |-> made.fs, exc |-> made.exc, shown |-> FALSE]
        ELSE LET out == savefig(made.fs, s.output_path)
             IN  [self |-> s, fs |-> out.fs, exc |-> out.exc, shown |-> FALSE]

\* save with a check that refuses a figure whose legend was already drawn
save_once(self, f) ==
    IF self.ax_l.legend.drawn
    THEN [self |-> self, fs |-> f, exc |-> "TerminalStateError", shown |-> FALSE]
    ELSE LET s == save_legend(save_labels(save_scales(self)))
         IN  IF self.output_path = None
             THEN [self |-> s, fs |-> f, exc |-> "TypeError", shown |-> FALSE]
             ELSE save_output(save_limits(save_title(s)), f)

\* save: basename(None) raises TypeError, after the legend and before the
\* limits
save(self, f) ==
    LET s == save_legend(save_labels(save_scales(self)))
    IN  IF self.output_path = None
        THEN [self |-> s, fs |-> f, exc |-> "TypeError", shown |-> FALSE]
        ELSE save_output(save_limits(save_title(s)), f)

(***************************************************************************)
(* Inputs.                                                                  *)
(***************************************************************************)
\* the values of the max_pe trait that are tried (the default is 2000)
MaxPeValues == {100, 2000, 2001}

\* output paths: none, "p.g", "o/p.g", "o/d/p.g" and "~/p.g"
OutputPaths ==
    {None, <<"p", ".", "g">>, <<"o", "/", "p", ".", "g">>,
     <<"o", "/", "d", "/", "p", ".", "g">>, <<"~", "/", "p", ".", "g">>}

\* the file systems a run may start in: the root and the home directory
\* exist, nothing else does
FileSystems ==
    {[dirs |-> {<<"/">>, HOME}, files |-> {}, writable |-> w] : w \in BOOLEAN}

TraitSets ==
    {Traits(o, m, lx, ly) :
        o \in OutputPaths, m \in MaxPeValues, lx \in BOOLEAN, ly \in BOOLEAN}

\* the results stored in the pickle files: what calculator.load(fp) and
\* get_charge_resolution() return for each input file
Pickles ==
    [fp \in {<<"d", "/", "r", "1", ".", "p">>, <<".", "h">>, <<"b", ".", "p">>} |->
        CASE fp = <<"d", "/", "r", "1", ".", "p">> ->
                [x |-> <<10, 100, 3000>>, res |-> <<50, 20, 5>>,
                 res_error |-> <<3, 2, 1>>, scaled_res |-> <<40, 30, 20>>,
                 scaled_res_error |-> <<6, 5, 4>>]
          [] fp = <<".", "h">> ->
                [x |-> <<2000, 2001>>, res |-> <<7, 8>>,
                 res_error |-> <<1, 1>>, scaled_res |-> <<9, 9>>,
                 scaled_res_error |-> <<2, 2>>]
          [] fp = <<"b", ".", "p">> ->
                [x |-> <<10, 100>>, res |-> <<50>>,
                 res_error |-> <<3, 2>>, scaled_res |-> <<40, 30>>,
                 scaled_res_error |-> <<6>>]]

InputFiles == DOMAIN Pickles

\* the arrays tried exhaustively on a single plotting call
XValues == {10, 100, 3000}

ResValues == {20, 50}

ErrorValues == {1}

Names == {<<"r", "1", ".", "p">>, <<".", "h">>, <<"a", ".", "b", ".", "c">>}

NoCall == [op |-> "none", name |-> None, x |-> <<>>, res |-> <<>>, error |-> <<>>]

(***************************************************************************)
(* Any sequence of calls on one plotter.                                    *)
(***************************************************************************)
Init ==
    /\ plotter \in TraitSets
    /\ alive = "unconstructed"
    /\ fs \in FileSystems
    /\ exc = NoExc
    /\ call = NoCall
    /\ ncalls = 0
    /\ nsaves = 0
    /\ ndata = 0
    /\ nlimit = 0
    /\ shown = FALSE
    /\ pc = "api"
    /\ input_files = <<>>

Construct ==
    /\ pc = "api"
    /\ alive = "unconstructed"
    /\ LET r == PlotterInit(plotter)
       IN  /\ plotter' = r.self
           /\ exc' = r.exc
           /\ alive' = IF r.exc = NoExc THEN "constructed" ELSE "raised"
    /\ UNCHANGED <<fs, call, ncalls, nsaves, ndata, nlimit, shown, pc, input_files>>

PlotChargeres(name, x, res, error) ==
    /\ pc = "api"
    /\ alive = "constructed"
    /\ ncalls < MaxCalls
    /\ LET r == plot_chargeres(plotter, name, x, res, error)
       IN  /\ plotter' = r.self
           /\ exc' = r.exc
           /\ ndata' = IF r.exc = NoExc THEN ndata + 1 ELSE ndata
    /\ call' = [op |-> "plot_chargeres", name |-> name, x |-> x, res |-> res,
                error |-> error]
    /\ ncalls' = ncalls + 1
    /\ UNCHANGED <<alive, fs, nsaves, nlimit, shown, pc, input_files>>

PlotScaledChargeres(x, res, error) ==
    /\ pc = "api"
    /\ alive = "constructed"
    /\ ncalls < MaxCalls
    /\ LET r == plot_scaled_chargeres(plotter, x, res, error)
       IN  /\ plotter' = r.self
           /\ exc' = r.exc
    /\ call' = [op |-> "plot_scaled_chargeres", name |-> None, x |-> x,
                res |-> res, error |-> error]
    /\ ncalls' = ncalls + 1
    /\ UNCHANGED <<alive, fs, nsaves, ndata, nlimit, shown, pc, input_files>>

PlotLimitCurves ==
    /\ pc = "api"
    /\ alive = "constructed"
    /\ ncalls < MaxCalls
    /\ LET r == plot_limit_curves(plotter)
       IN  /\ plotter' = r.self
           /\ exc' = r.exc
           /\ nlimit' = IF r.exc = NoExc THEN nlimit + 1 ELSE nlimit
    /\ call' = [NoCall EXCEPT !.op = "plot_limit_curves"]
    /\ ncalls' = ncalls + 1
    /\ UNCHANGED <<alive, fs, nsaves, ndata, shown, pc, input_files>>

Save ==
    /\ pc = "api"
    /\ alive = "constructed"
    /\ nsaves < MaxSaves
    /\ LET r == save(plotter, fs)
       IN  /\ plotter' = r.self
           /\ fs' = r.fs
           /\ exc' = r.exc
           /\ shown' = (shown \/ r.shown)
    /\ call' = [NoCall EXCEPT !.op = "save"]
    /\ nsaves' = nsaves + 1
    /\ UNCHANGED <<alive, ncalls, ndata, nlimit, pc, input_files>>

Next ==
    \/ Construct
    \/ \E fp \in InputFiles :
          PlotChargeres(basename(fp), Pickles[fp].x, Pickles[fp].res,
                        Pickles[fp].res_error)
    \/ \E fp \in InputFiles :
          PlotScaledChargeres(Pickles[fp].x, Pickles[fp].scaled_res,
                              Pickles[fp].scaled_res_error)
    \/ PlotLimitCurves
    \/ Save

Spec == Init /\ [][Next]_vars

(***************************************************************************)
(* One plotting call with arrays drawn exhaustively, on a plotter that is   *)
(* fresh or already holds limit curves.                                     *)
(***************************************************************************)
FilterInit ==
    /\ plotter \in {PlotterInit(Traits(<<"o", "/", "p", ".", "g">>, m, FALSE, FALSE)).self :
                       m \in MaxPeValues}
    /\ alive = "constructed"
    /\ fs \in {f \in FileSystems : f.writable}
    /\ exc = NoExc
    /\ call = NoCall
    /\ ncalls = 0
    /\ nsaves = 0
    /\ ndata = 0
    /\ nlimit = 0
    /\ shown = FALSE
    /\ pc = "api"
    /\ input_files = <<>>

\* no dataset has been plotted yet
NoDatasetYet == call.op \notin {"plot_chargeres", "plot_scaled_chargeres"}

FilterNext ==
    \/ NoDatasetYet /\ PlotLimitCurves
    \/ /\ NoDatasetYet
       /\ \E name \in Names, x \in SeqUpTo(XValues, MaxLen),
             res \in SeqUpTo(ResValues, MaxLen), error \in SeqUpTo(ErrorValues, MaxLen) :
             PlotChargeres(name, x, res, error)
    \/ /\ NoDatasetYet
       /\ \E x \in SeqUpTo(XValues, MaxLen),
             res \in SeqUpTo(ResValues, MaxLen), error \in SeqUpTo(ErrorValues, MaxLen) :
             PlotScaledChargeres(x, res, error)

FilterSpec == FilterInit /\ [][FilterNext]_vars

(***************************************************************************)
(* ChargeResolutionViewer: one run of the tool, setup, start, finish.  An   *)
(* exception in any of them ends the run.                                   *)
(***************************************************************************)
\* the body of the loop of start, for the files still to plot
RECURSIVE start_loop(_, _, _)
start_loop(self, files, done) ==
    IF files = <<>> THEN [self |-> self, exc |-> NoExc, ndata |-> done]
    ELSE LET fp   == Head(files)
             d    == Pickles[fp]
             name == basename(fp)
             r1   == plot_chargeres(self, name, d.x, d.res, d.res_error)
             r2   == plot_scaled_chargeres(r1.self, d.x, d.scaled_res,
                                           d.scaled_res_error)
         IN  IF r1.exc # NoExc THEN [self |-> r1.self, exc |-> r1.exc, ndata |-> done]
             ELSE IF r2.exc # NoExc
                  THEN [self |-> r2.self, exc |-> r2.exc, ndata |-> done + 1]
             ELSE start_loop(r2.self, Tail(files), done + 1)

\* start with the limit curves drawn after the input files
start_limits_last(self, files) ==
    LET r == start_loop(self, files, 0)
    IN  IF r.exc # NoExc THEN [self |-> r.self, exc |-> r.exc, ndata |-> r.ndata, nlimit |-> 0]
        ELSE LET r0 == plot_limit_curves(r.self)
             IN  [self |-> r0.self, exc |-> r0.exc, ndata |-> r.ndata,
                  nlimit |-> IF r0.exc = NoExc THEN 1 ELSE 0]

\* start: the limit curves first, then every input file in turn
start(self, files) ==
    LET r0 == plot_limit_curves(self)
    IN  IF r0.exc # NoExc THEN [self |-> r0.self, exc |-> r0.exc, ndata |-> 0, nlimit |-> 0]
        ELSE LET r == start_loop(r0.self, files, 0)
             IN  [self |-> r.self, exc |-> r.exc, ndata |-> r.ndata, nlimit |-> 1]

ToolInit ==
    /\ plotter \in TraitSets
    /\ alive = "unconstructed"
    /\ fs \in FileSystems
    /\ exc = NoExc
    /\ call = NoCall
    /\ ncalls = 0
    /\ nsaves = 0
    /\ ndata = 0
    /\ nlimit = 0
    /\ shown = FALSE
    /\ pc = "new"
    /\ input_files \in SeqUpTo(InputFiles, MaxFiles)

Setup ==
    /\ pc = "new"
    /\ LET r == PlotterInit(plotter)
       IN  /\ plotter' = r.self
           /\ exc' = r.exc
           /\ alive' = IF r.exc = NoExc THEN "constructed" ELSE "raised"
           /\ pc' = IF r.exc = NoExc THEN "setup" ELSE "failed"
    /\ call' = [NoCall EXCEPT !.op = "setup"]
    /\ UNCHANGED <<fs, ncalls, nsaves, ndata, nlimit, shown, input_files>>

Start ==
    /\ pc = "setup"
    /\ LET r == start(plotter, input_files)
       IN  /\ plotter' = r.self
           /\ exc' = r.exc
           /\ ndata' = r.ndata
           /\ nlimit' = r.nlimit
           /\ pc' = IF r.exc = NoExc THEN "started" ELSE "failed"
    /\ call' = [NoCall EXCEPT !.op = "start"]
    /\ UNCHANGED <<alive, fs, ncalls, nsaves, shown, input_files>>

Finish ==
    /\ pc = "started"
    /\ LET r == save(plotter, fs)
       IN  /\ plotter' = r.self
           /\ fs' = r.fs
           /\ exc' = r.exc
           /\ shown' = (shown \/ r.shown)
           /\ pc' = IF r.exc = NoExc THEN "finished" ELSE "failed"
    /\ call' = [NoCall EXCEPT !.op = "finish"]
    /\ nsaves' = nsaves + 1
    /\ UNCHANGED <<alive, ncalls, ndata, nlimit, input_files>>

ToolNext == Setup \/ Start \/ Finish

ToolSpec == ToolInit /\ [][ToolNext]_vars

(***************************************************************************)
(* Properties.                                                              *)
(***************************************************************************)
Constructed == alive = "constructed"

LimitLabels == <<<<"Requirement">>, <<"Goal">>, <<"Poisson">>>>

\* the last call was this plotting call, with arrays of one length
AlignedCall(op) ==
    /\ call.op = op
    /\ Len(call.res) = Len(call.x)
    /\ Len(call.error) = Len(call.x)

\* the indices of x whose charge is at most m
KeptIndices(x, m) == {i \in 1..Len(x) : x[i] <= m}

\* the k-th index of S, counted upwards
KthKept(S, k) == CHOOSE i \in S : Cardinality({j \in S : j < i}) = k - 1

\* a file name without its extension: cut at the last dot that has a
\* character other than a dot before it
NameWithoutExtension(n) ==
    LET dots == {i \in 1..Len(n) : n[i] = "." /\ \E k \in 1..(i - 1) : n[k] # "."}
    IN  IF dots = {} THEN n
        ELSE SubSeq(n, 1, (CHOOSE i \in dots : \A j \in dots : j <= i) - 1)

\* C1: after plot_chargeres(name, x, res, error) with arrays of equal length,
\* the points just drawn on the left panel are exactly (x[i], res[i], error[i])
\* for the indices i with x[i] <= max_pe, in their original order; their
\* number is the number of such indices and none has x > max_pe.
C1_RenderedPointsAreFiltered ==
    AlignedCall("plot_chargeres") =>
        LET kept == KeptIndices(call.x, plotter.max_pe)
            n    == Cardinality(kept)
            a    == Last(plotter.ax_l.artists)
        IN  /\ exc = NoExc
            /\ plotter.ax_l.artists # <<>>
            /\ a.kind = "errorbar"
            /\ Len(a.x) = n /\ Len(a.y) = n /\ Len(a.yerr) = n
            /\ \A k \in 1..n :
                  LET i == KthKept(kept, k)
                  IN  a.x[k] = call.x[i] /\ a.y[k] = call.res[i]
                      /\ a.yerr[k] = call.error[i]
            /\ \A k \in 1..Len(a.x) : a.x[k] <= plotter.max_pe

\* a call that kept one charge and dropped another
C1_Witness ==
    /\ AlignedCall("plot_chargeres")
    /\ exc = NoExc
    /\ \E i, j \in 1..Len(call.x) :
          call.x[i] <= plotter.max_pe /\ call.x[j] > plotter.max_pe
    /\ Len(Last(plotter.ax_l.artists).x) = 1

\* C6: plot_chargeres with arrays that do not all have the length of x fails
\* (numpy's IndexError on the mask) before anything is drawn: the left panel
\* and the two legend lists are as they were before the call.
C6_ShapeMismatchFailsFast ==
    [][(/\ call'.op = "plot_chargeres"
        /\ ncalls' = ncalls + 1
        /\ (Len(call'.res) # Len(call'.x) \/ Len(call'.error) # Len(call'.x)))
       => (/\ exc' = "IndexError"
           /\ plotter'.ax_l = plotter.ax_l
           /\ plotter'.legend_handles = plotter.legend_handles
           /\ plotter'.legend_labels = plotter.legend_labels)]_vars

\* a call with a short res array that failed on a plotter holding the limit
\* curves
C6_Witness ==
    /\ call.op = "plot_chargeres"
    /\ Len(call.res) < Len(call.x)
    /\ exc = "IndexError"
    /\ nlimit = 1
    /\ Len(plotter.ax_l.artists) = 3
    /\ plotter.legend_labels = LimitLabels

\* C10: the two legend lists always have one length, the number of completed
\* plot_chargeres calls plus three times the number of completed
\* plot_limit_curves calls; plot_scaled_chargeres changes neither list; a
\* completed plot_chargeres appends one entry, labelled with the name without
\* its extension.
C10_LegendBookkeeping ==
    /\ [](Constructed =>
            /\ Len(plotter.legend_handles) = ndata + 3 * nlimit
            /\ Len(plotter.legend_labels) = ndata + 3 * nlimit)
    /\ [][(call'.op = "plot_scaled_chargeres" /\ ncalls' = ncalls + 1)
          => (/\ plotter'.legend_handles = plotter.legend_handles
              /\ plotter'.legend_labels = plotter.legend_labels)]_vars
    /\ [][(call'.op = "plot_chargeres" /\ ncalls' = ncalls + 1 /\ exc' = NoExc)
          => (/\ plotter'.legend_labels =
                    Append(plotter.legend_labels, NameWithoutExtension(call'.name))
              /\ Len(plotter'.legend_handles) = Len(plotter.legend_handles) + 1
              /\ SubSeq(plotter'.legend_handles, 1, Len(plotter.legend_handles))
                    = plotter.legend_handles)]_vars

\* a dataset plotted after the limit curves: four entries, the last one the
\* name "r1.p" without ".p"
C10_Witness ==
    /\ call.op = "plot_chargeres"
    /\ exc = NoExc
    /\ nlimit = 1
    /\ Len(plotter.legend_handles) = 4
    /\ Last(plotter.legend_labels) = <<"r", "1">>

\* C4: every plot_limit_curves call appends exactly the three entries
\* "Requirement", "Goal", "Poisson", in that order, to the end of the legend
\* lists and leaves the entries already there unchanged and in place.
C4_LimitCurvesAppendThree ==
    [][(call'.op = "plot_limit_curves" /\ ncalls' = ncalls + 1)
       => (/\ exc' = NoExc
           /\ plotter'.legend_labels = plotter.legend_labels \o LimitLabels
           /\ Len(plotter'.legend_handles) = Len(plotter.legend_handles) + 3
           /\ SubSeq(plotter'.legend_handles, 1, Len(plotter.legend_handles))
                 = plotter.legend_handles)]_vars

\* limit curves drawn after a dataset: the dataset's entry still comes first
C4_Witness ==
    /\ call.op = "plot_limit_curves"
    /\ ndata = 1
    /\ plotter.legend_labels = <<<<"r", "1">>>> \o LimitLabels

\* C5: after save the left panel's x limits are [0.9, max_pe * 1.1]; the right
\* panel's are [0.9, 2000 * 1.1] when max_pe > 2000 and [0.9, max_pe * 1.1]
\* otherwise, so the two panels differ exactly when max_pe > 2000 and agree at
\* max_pe = 2000 (limits in tenths).
C5_XLimits ==
    nsaves >= 1 =>
        /\ plotter.ax_l.xlim = <<9, plotter.max_pe * 11>>
        /\ plotter.ax_r.xlim = IF plotter.max_pe > 2000
                               THEN <<9, 22000>>
                               ELSE <<9, plotter.max_pe * 11>>
        /\ (plotter.ax_r.xlim # plotter.ax_l.xlim) <=> (plotter.max_pe > 2000)

\* saved at the boundary max_pe = 2000: both panels end at 2200
C5_Witness ==
    /\ nsaves >= 1
    /\ plotter.max_pe = 2000
    /\ plotter.ax_l.xlim = <<9, 22000>>
    /\ plotter.ax_r.xlim = <<9, 22000>>

\* C9: after save the left panel's y axis is logarithmic exactly when linear_y
\* is false and both panels' x axes are logarithmic exactly when linear_x is
\* false, whatever was plotted.
C9_ScalesFollowFlags ==
    nsaves >= 1 =>
        /\ plotter.ax_l.yscale = IF plotter.linear_y THEN "linear" ELSE "log"
        /\ plotter.ax_l.xscale = IF plotter.linear_x THEN "linear" ELSE "log"
        /\ plotter.ax_r.xscale = IF plotter.linear_x THEN "linear" ELSE "log"

\* saved with linear_y set and linear_x not, with a dataset on the panel
C9_Witness ==
    /\ nsaves >= 1
    /\ ndata >= 1
    /\ plotter.linear_y /\ ~plotter.linear_x
    /\ plotter.ax_l.yscale = "linear"
    /\ plotter.ax_l.xscale = "log"

\* C7, as stated: with no output path configured the plotter can be created.
C7_Original ==
    (plotter.output_path = None /\ alive # "unconstructed") => Constructed

\* C7, amended: with no output path configured the construction of the plotter
\* raises ValueError, so no plotter without an output path exists and save
\* never shows the figure in a window.
C7_NoPlotterWithoutOutputPath ==
    /\ plotter.output_path = None => ~Constructed
    /\ (plotter.output_path = None /\ alive # "unconstructed")
          => (alive = "raised" /\ exc = "ValueError")
    /\ ~shown

\* the construction without an output path has raised
C7_Witness ==
    /\ plotter.output_path = None
    /\ alive = "raised"
    /\ exc = "ValueError"

\* C8, as stated: with an output path configured save makes the directory of
\* the path when it is missing and writes the figure there, also for a path
\* with no directory part; when the directory cannot be made the call fails
\* and no file is at the output path.
C8_Original ==
    (call.op = "save" /\ Constructed) =>
        /\ fs.writable =>
              /\ exc = NoExc
              /\ plotter.output_path \in fs.files
        /\ (~fs.writable /\ exc # NoExc) => plotter.output_path \notin fs.files

\* C2, as stated: a save call on a plotter that was saved before is rejected.
C2_Original ==
    [][(call'.op = "save" /\ nsaves' = nsaves + 1 /\ plotter.output_path \in fs.files)
       => exc' # NoExc]_vars

\* C2, amended: a save call on a plotter whose figure was already written is
\* not rejected: it completes again, draws the legend from the lists as they
\* stand and writes the same file, the file system staying as it was.
C2_SecondSaveRerenders ==
    [][(call'.op = "save" /\ nsaves' = nsaves + 1 /\ plotter.output_path \in fs.files)
       => (/\ exc' = NoExc
           /\ plotter'.ax_l.legend = [handles |-> plotter.legend_handles,
                                      labels  |-> plotter.legend_labels,
                                      drawn   |-> TRUE]
           /\ plotter'.output_path = plotter.output_path
           /\ fs' = fs)]_vars

\* a second save has completed
C2_Witness ==
    /\ call.op = "save"
    /\ nsaves = 2
    /\ exc = NoExc
    /\ plotter.output_path \in fs.files

\* the labels of the input files, in input order
FileLabels(files) ==
    [i \in 1..Len(files) |-> NameWithoutExtension(basename(files[i]))]

\* C3, as stated: at the end of a run the legend lists the dataset labels in
\* input order and then "Requirement", "Goal", "Poisson".
C3_Original ==
    pc = "finished" =>
        plotter.ax_l.legend.labels = FileLabels(input_files) \o LimitLabels

\* C3, amended: in a run the limit curves are drawn first, then every input
\* file is plotted on both panels, and save comes after that; the legend at
\* the end lists "Requirement", "Goal", "Poisson" and then the dataset labels
\* in input order.
C3_LimitCurvesThenDatasets ==
    /\ pc \in {"started", "finished"} =>
          /\ nlimit = 1
          /\ ndata = Len(input_files)
          /\ Len(plotter.ax_l.artists) = 3 + Len(input_files)
          /\ Len(plotter.ax_r.artists) = 3 + Len(input_files)
          /\ \A k \in 1..Len(plotter.ax_l.artists) :
                /\ plotter.ax_l.artists[k].kind = IF k <= 3 THEN "line" ELSE "errorbar"
                /\ plotter.ax_r.artists[k].kind = IF k <= 3 THEN "line" ELSE "errorbar"
          /\ plotter.legend_labels = LimitLabels \o FileLabels(input_files)
    /\ pc \in {"setup", "started"} => ~plotter.ax_l.legend.drawn
    /\ pc = "finished" =>
          /\ plotter.ax_l.legend.drawn
          /\ plotter.ax_l.legend.labels = LimitLabels \o FileLabels(input_files)

\* a finished run over two different input files
C3_Witness ==
    /\ pc = "finished"
    /\ Len(input_files) = 2
    /\ input_files[1] # input_files[2]

====
